---- MODULE Spec2Model ----
(***************************************************************************)
(* Model of the two constructs of the repository: the managed database     *)
(* (src/src/constructs/Database.ts) and the network wrapper                *)
(* (src/unnamed/part_000, class Vpc).                                      *)
(*                                                                         *)
(* Strings are sequences of one-character strings, so that pattern         *)
(* matching, length constraints and the stripping of separators are        *)
(* computed character by character as the code computes them.              *)
(***************************************************************************)
EXTENDS Integers, Sequences, FiniteSets, TLC

VARIABLES
    validation,   \* outcome of the last schema validation
    safeName,     \* argument and result of the last safeDbName call
    scope,        \* nodes declared in the stack's construct tree
    constructs,   \* successfully constructed construct objects, by id
    vpcConfig,    \* provider-wide network context (provider.vpc)
    writes,       \* history: number of assignments made to vpcConfig
    err           \* error raised by the last constructor call

vars == <<validation, safeName, scope, constructs, vpcConfig, writes, err>>

----------------------------------------------------------------------------
(* Bounds                                                                  *)

MaxLen == 4          \* longest generated argument of safeDbName
MaxDatabases == 2    \* database constructors called in one process
MaxVpcs == 2         \* network constructors called in one process

----------------------------------------------------------------------------
(* JSON values                                                             *)

StrV(s) == [t |-> "string", s |-> s, n |-> 0]
IntV(n) == [t |-> "integer", s |-> <<>>, n |-> n]
Undefined == [t |-> "undefined", s |-> <<>>, n |-> 0]

MYSQL == <<"m", "y", "s", "q", "l">>
MARIADB == <<"m", "a", "r", "i", "a", "d", "b">>
POSTGRES == <<"p", "o", "s", "t", "g", "r", "e", "s">>
ORACLE == <<"o", "r", "a", "c", "l", "e">>
T3_MICRO == <<"t", "3", ".", "m", "i", "c", "r", "o">>
M5_LARGE == <<"m", "5", ".", "l", "a", "r", "g", "e">>
VPC == <<"v", "p", "c">>
DATABASE == <<"d", "a", "t", "a", "b", "a", "s", "e">>
ADMIN == <<"a", "d", "m", "i", "n">>

\* A password of n characters.
Pw(n) == [i \in 1..n |-> "p"]

\* Every key a raw configuration block may carry; "type" and "extra"
\* stand for keys the database schema does not declare.
AllKeys == {"name", "password", "engine", "instanceType", "storageSize",
            "type", "extra"}

\* The keys present in a configuration object.
Present(cfg) == {k \in AllKeys : cfg[k].t # "undefined"}

----------------------------------------------------------------------------
(* Schemas                                                                 *)

\* One property schema; "" / 0 / {} stand for an absent keyword, and
\* minimum is the set holding the bound, if any.
Prop(type, pattern, minLength, enum, minimum, const) ==
    [type |-> type, pattern |-> pattern, minLength |-> minLength,
     enum |-> enum, minimum |-> minimum, const |-> const]

NoConst == <<"#">>
NoMinimum == {}

\* Mutants of SCHEMA: each differs from it in one keyword.
SCHEMA_minLength9 ==
    [properties |->
        [name |-> Prop("string", "^[\\w\\d-_]*$/", 0, {}, NoMinimum, NoConst),
         password |-> Prop("string", "", 9, {}, NoMinimum, NoConst),
         engine |-> Prop("string", "", 0, {MYSQL, MARIADB, POSTGRES}, NoMinimum, NoConst),
         instanceType |-> Prop("string", "", 0, {}, NoMinimum, NoConst),
         storageSize |-> Prop("integer", "", 0, {}, {20}, NoConst)],
     additionalProperties |-> FALSE,
     required |-> {"password"}]

SCHEMA_minimum21 ==
    [properties |->
        [name |-> Prop("string", "^[\\w\\d-_]*$/", 0, {}, NoMinimum, NoConst),
         password |-> Prop("string", "", 8, {}, NoMinimum, NoConst),
         engine |-> Prop("string", "", 0, {MYSQL, MARIADB, POSTGRES}, NoMinimum, NoConst),
         instanceType |-> Prop("string", "", 0, {}, NoMinimum, NoConst),
         storageSize |-> Prop("integer", "", 0, {}, {21}, NoConst)],
     additionalProperties |-> FALSE,
     required |-> {"password"}]

SCHEMA_open ==
    [properties |->
        [name |-> Prop("string", "^[\\w\\d-_]*$/", 0, {}, NoMinimum, NoConst),
         password |-> Prop("string", "", 8, {}, NoMinimum, NoConst),
         engine |-> Prop("string", "", 0, {MYSQL, MARIADB, POSTGRES}, NoMinimum, NoConst),
         instanceType |-> Prop("string", "", 0, {}, NoMinimum, NoConst),
         storageSize |-> Prop("integer", "", 0, {}, {20}, NoConst)],
     additionalProperties |-> TRUE,
     required |-> {"password"}]

\* The database schema.
SCHEMA ==
    [properties |->
        [name |-> Prop("string", "^[\\w\\d-_]*$/", 0, {}, NoMinimum, NoConst),
         password |-> Prop("string", "", 8, {}, NoMinimum, NoConst),
         engine |-> Prop("string", "", 0, {MYSQL, MARIADB, POSTGRES}, NoMinimum, NoConst),
         instanceType |-> Prop("string", "", 0, {}, NoMinimum, NoConst),
         storageSize |-> Prop("integer", "", 0, {}, {20}, NoConst)],
     additionalProperties |-> FALSE,
     required |-> {"password"}]

\* The network schema.
VPC_DEFINITION ==
    [properties |->
        [type |-> Prop("any", "", 0, {}, NoMinimum, VPC)],
     additionalProperties |-> FALSE,
     required |-> {}]

----------------------------------------------------------------------------
(* Schema validation                                                       *)

Digits == {"0", "1", "2", "3", "4", "5", "6", "7", "8", "9"}
Letters == {"a", "b", "c", "d", "e", "g", "i", "l", "m", "o", "p", "q", "r",
            "s", "t", "v", "x", "y"}

\* The character class [\w\d-_] of the name pattern.
NameClass == Letters \cup Digits \cup {"_", "-"}

\* The regular expression ^[\w\d-_]*$/ searched in s: the class is
\* repeated over the first k characters, then $ asserts the end of the
\* input, then a literal "/" must still be consumed.
MatchesNamePattern(s) ==
    \E k \in 0..Len(s) :
        /\ \A i \in 1..k : s[i] \in NameClass
        /\ k = Len(s)
        /\ k + 1 <= Len(s)
        /\ s[k + 1] = "/"

MatchesPattern(pattern, s) ==
    IF pattern = "^[\\w\\d-_]*$/" THEN MatchesNamePattern(s) ELSE TRUE

\* One violation, reported when cond holds.
ErrIf(cond, keyword, key) ==
    IF cond THEN {[keyword |-> keyword, field |-> key]} ELSE {}

\* The keywords of one property schema that value v violates.
PropErrors(key, p, v) ==
    IF p.type # "any" /\ v.t # p.type
    THEN ErrIf(TRUE, "type", key)
    ELSE
        ErrIf(v.t = "string" /\ p.pattern # ""
                /\ ~MatchesPattern(p.pattern, v.s), "pattern", key)
        \cup ErrIf(v.t = "string" /\ Len(v.s) < p.minLength, "minLength", key)
        \cup ErrIf(p.enum # {} /\ v.s \notin p.enum, "enum", key)
        \cup ErrIf(v.t = "integer" /\ (\E m \in p.minimum : v.n < m),
                   "minimum", key)
        \cup ErrIf(p.const # NoConst /\ ~(v.t = "string" /\ v.s = p.const),
                   "const", key)

\* The set of violations of an object schema by a configuration; the
\* configuration is valid exactly when the set is empty.
Validate(schema, cfg) ==
    {[keyword |-> "required", field |-> k] :
        k \in schema.required \ Present(cfg)}
    \cup
    {[keyword |-> "additionalProperties", field |-> k] :
        k \in {j \in Present(cfg) : ~schema.additionalProperties
                                     /\ j \notin DOMAIN schema.properties}}
    \cup
    UNION {PropErrors(k, schema.properties[k], cfg[k]) :
        k \in Present(cfg) \cap DOMAIN schema.properties}

----------------------------------------------------------------------------
(* Database construct                                                      *)

DefaultStorage == 20
BackupRetentionDays == 7

\* A ?? that always takes its right-hand side.
Coalesce_always(v, d) == d

\* v ?? d
Coalesce(v, d) == IF v.t = "undefined" THEN d ELSE v

\* name.replace(/x/, ""): without the g flag only the first match goes.
RECURSIVE ReplaceFirst(_, _)
ReplaceFirst(s, ch) ==
    IF s = <<>> THEN <<>>
    ELSE IF Head(s) = ch THEN Tail(s)
    ELSE <<Head(s)>> \o ReplaceFirst(Tail(s), ch)

\* name.replace(/x/g, ""): every occurrence of ch is removed.
RECURSIVE ReplaceAll(_, _)
ReplaceAll(s, ch) ==
    IF s = <<>> THEN <<>>
    ELSE IF Head(s) = ch THEN ReplaceAll(Tail(s), ch)
    ELSE <<Head(s)>> \o ReplaceAll(Tail(s), ch)

safeDbName(name) == ReplaceAll(ReplaceAll(name, "-"), "_")

\* configuration.engine ?? "mysql"
getEngine(cfg) == Coalesce(cfg.engine, StrV(MYSQL)).s

\* What a function returns when control falls off its end.
NoEngine == [engine |-> "undefined", fullVersion |-> "", majorVersion |-> ""]

\* The switch over the engine; it has no default branch and nothing
\* follows it, so any other value leaves the function without a result.
getEngineVersion(cfg) ==
    CASE getEngine(cfg) = MYSQL ->
            [engine |-> "mysql", fullVersion |-> "8.0.23", majorVersion |-> "8.0"]
      [] getEngine(cfg) = MARIADB ->
            [engine |-> "mariadb", fullVersion |-> "10.5.8", majorVersion |-> "10.5"]
      [] getEngine(cfg) = POSTGRES ->
            [engine |-> "postgres", fullVersion |-> "13.2", majorVersion |-> "13"]
      [] OTHER -> NoEngine

\* provider.stackName
StackName == <<"a", "p", "p">>

\* `${this.provider.stackName}-${id}`
DefaultName(id) == StackName \o <<"-">> \o id

\* A node of the construct tree: the construct `id` itself (child "")
\* or a resource declared under it.
Node(id, child, type) == [id |-> id, child |-> child, type |-> type]

SubnetType_PUBLIC == "PUBLIC"

\* SubnetType.PRIVATE
SubnetType_PRIVATE == "PRIVATE"

\* The properties handed to the database instance.
InstanceProps(id, cfg, vpc) ==
    [instanceIdentifier |-> Coalesce(cfg.name, StrV(DefaultName(id))).s,
     databaseName |-> safeDbName(Coalesce(cfg.name, StrV(DefaultName(id))).s),
     engine |-> getEngineVersion(cfg),
     instanceType |-> Coalesce(cfg.instanceType, StrV(T3_MICRO)).s,
     credentials |-> [username |-> ADMIN, password |-> cfg.password],
     vpc |-> vpc,
     vpcSubnets |-> [subnetType |-> SubnetType_PRIVATE],
     allocatedStorage |-> Coalesce(cfg.storageSize, IntV(DefaultStorage)),
     backupRetention |-> BackupRetentionDays,
     cloudwatchLogsExports |-> <<"">>,
     cloudwatchLogsRetention |-> "ONE_WEEK"]

\* The fields of a constructed Database object.
DatabaseObject(id, cfg, vpc) ==
    [kind |-> "database",
     id |-> id,
     configuration |-> cfg,
     dbInstance |-> [node |-> Node(id, "Instance", "DatabaseInstance"),
                     props |-> InstanceProps(id, cfg, vpc)],
     dbHostOutput |-> [node |-> Node(id, "DbHost", "CfnOutput"),
                       value |-> [instance |-> Node(id, "Instance", "DatabaseInstance"),
                                  attribute |-> "hostname"]]]

----------------------------------------------------------------------------
(* Provider-wide network context (the provider's code is not part of the   *)
(* sources; its two entry points follow the specification)                 *)

NoVpcConfig == [registered |-> FALSE, securityGroupIds |-> <<>>, subnetIds |-> <<>>]

\* provider.enableVpc(): hands out the registered network context; with
\* none registered the call fails (a database requires network placement).
enableVpcThrows == ~vpcConfig.registered
enableVpc == vpcConfig

\* provider.setVpcConfig(securityGroups, subnets): publishes the two lists
\* to the provider-wide state.  On a context that is already registered
\* the call either redefines it or fails with a conflict.
setVpcConfig(securityGroups, subnets, threw) ==
    \/ /\ ~threw
       /\ vpcConfig' = [registered |-> TRUE,
                        securityGroupIds |-> securityGroups,
                        subnetIds |-> subnets]
       /\ writes' = writes + 1
    \/ /\ threw
       /\ vpcConfig.registered
       /\ UNCHANGED <<vpcConfig, writes>>

----------------------------------------------------------------------------
(* Vpc construct                                                           *)

MaxAzs == 2

\* One private subnet in each availability zone of the network.
PrivateSubnets(id) == [az \in 1..MaxAzs |-> [vpc |-> id, az |-> az]]

\* The security group for the Lambda functions, with its egress rule.
AppSecurityGroup(id) ==
    [node |-> Node(id, "AppSecurityGroup", "SecurityGroup"),
     vpc |-> id,
     securityGroupName |-> [vpc |-> id, group |-> "AppSecurityGroup"],
     egress |-> {[peer |-> "anyIpv4", port |-> "allTraffic"]}]

\* The fields of a constructed Vpc object.
VpcObject(id) ==
    [kind |-> "vpc",
     id |-> id,
     maxAzs |-> MaxAzs,
     privateSubnets |-> PrivateSubnets(id),
     appSecurityGroup |-> AppSecurityGroup(id)]

\* The arguments of the registration call: a registration that forgets
\* the subnets.
VpcRegistration_noSubnets(id) ==
    [securityGroups |-> <<AppSecurityGroup(id).securityGroupName>>,
     subnets |-> <<>>]

\* The arguments of the registration call.
VpcRegistration(id) ==
    [securityGroups |-> <<AppSecurityGroup(id).securityGroupName>>,
     subnets |-> [i \in DOMAIN PrivateSubnets(id) |-> PrivateSubnets(id)[i]]]

----------------------------------------------------------------------------
(* Exported surface                                                        *)

\* Database.commands()
Database_commands(c) == <<>>

\* Database.outputs(): the stack output behind each name.
Database_outputs(c) == [host |-> c.dbHostOutput]

\* A references() that forgets the port.
Database_references_hostOnly(c) ==
    [host |-> [instance |-> c.dbInstance.node, attribute |-> "hostname"]]

\* Database.references(): the endpoint attribute behind each name.
Database_references(c) ==
    [host |-> [instance |-> c.dbInstance.node, attribute |-> "hostname"],
     port |-> [instance |-> c.dbInstance.node, attribute |-> "port"]]

\* Vpc.outputs()
Vpc_outputs(c) == <<>>

\* The Vpc class declares no references member.
Vpc_references(c) == <<>>

----------------------------------------------------------------------------
(* Inputs                                                                  *)

MY_DB == <<"m", "y", "-", "d", "b">>
A_1 == <<"a", "_", "1">>
MY_APP_DB_1 == <<"m", "y", "-", "a", "p", "p", "_", "d", "b", "-", "1">>

MkConfig(name, password, engine, instanceType, storageSize, type, extra) ==
    [name |-> name, password |-> password, engine |-> engine,
     instanceType |-> instanceType, storageSize |-> storageSize,
     type |-> type, extra |-> extra]

EngineOpts == {Undefined, StrV(MYSQL), StrV(MARIADB), StrV(POSTGRES), StrV(ORACLE)}

\* Raw configuration blocks handed to the validator.
RawConfigs ==
    {MkConfig(n, p, e, i, s, ty, x) :
        n \in {Undefined, StrV(MY_DB), StrV(A_1), StrV(<<"a", " ">>),
               StrV(<<"a", "/">>)},
        p \in {Undefined, StrV(Pw(7)), StrV(Pw(8)), StrV(Pw(9)), IntV(12345678)},
        e \in EngineOpts,
        i \in {Undefined, StrV(M5_LARGE)},
        s \in {Undefined, IntV(19), IntV(20), IntV(21), IntV(50),
               StrV(<<"2", "0">>)},
        ty \in {Undefined, StrV(VPC), StrV(DATABASE)},
        x \in {Undefined, StrV(<<"x">>)}}

\* Configurations handed to the database constructor, which accepts its
\* argument as it comes.
DbConfigs ==
    {MkConfig(n, p, e, i, s, Undefined, Undefined) :
        n \in {Undefined, StrV(MY_DB), StrV(A_1)},
        p \in {StrV(Pw(7)), StrV(Pw(8))},
        e \in EngineOpts,
        i \in {Undefined, StrV(M5_LARGE)},
        s \in {Undefined, IntV(19), IntV(20), IntV(50)}}

VpcConfigs ==
    {MkConfig(Undefined, Undefined, Undefined, Undefined, Undefined, ty, Undefined) :
        ty \in {Undefined, StrV(VPC)}}

\* Construct ids of the service file.
Ids == {<<"d", "b">>, <<"n", "e", "t">>, <<"x", "_", "1">>}

SafeAlphabet == {"a", "-", "_"}

RECURSIVE StringsUpTo(_)
StringsUpTo(n) ==
    IF n = 0 THEN {<<>>}
    ELSE LET shorter == StringsUpTo(n - 1)
         IN shorter \cup {Append(s, c) : s \in shorter, c \in SafeAlphabet}

SafeNameArgs == StringsUpTo(MaxLen) \cup {MY_APP_DB_1, MY_DB}

----------------------------------------------------------------------------
(* State machine                                                           *)

NoValidation == [kind |-> "none", cfg |-> MkConfig(Undefined, Undefined,
                    Undefined, Undefined, Undefined, Undefined, Undefined),
                 errors |-> {}]
NoCall == [called |-> FALSE, arg |-> <<>>, ret |-> <<>>]

Init ==
    /\ validation = NoValidation
    /\ safeName = NoCall
    /\ scope = {}
    /\ constructs = <<>>
    /\ vpcConfig = NoVpcConfig
    /\ writes = 0
    /\ err = "none"

\* The database block of the service file is validated against SCHEMA;
\* a block is validated once.
ValidateDatabase(cfg) ==
    /\ validation.kind = "none"
    /\ validation' = [kind |-> "database", cfg |-> cfg,
                      errors |-> Validate(SCHEMA, cfg)]
    /\ UNCHANGED <<safeName, scope, constructs, vpcConfig, writes, err>>

\* The network block of the service file is validated against
\* VPC_DEFINITION.
ValidateVpc(cfg) ==
    /\ validation.kind = "none"
    /\ validation' = [kind |-> "vpc", cfg |-> cfg,
                      errors |-> Validate(VPC_DEFINITION, cfg)]
    /\ UNCHANGED <<safeName, scope, constructs, vpcConfig, writes, err>>

\* One call of safeDbName.
CallSafeDbName(name) ==
    /\ safeName' = [called |-> TRUE, arg |-> name, ret |-> safeDbName(name)]
    /\ UNCHANGED <<validation, scope, constructs, vpcConfig, writes, err>>

Declared(id) == \E n \in scope : n.id = id
CountNodes(type) == Cardinality({n \in scope : n.type = type})

\* new Database(scope, id, configuration, provider)
NewDatabase(id, cfg) ==
    /\ ~Declared(id)
    /\ CountNodes("Database") < MaxDatabases
    /\ IF enableVpcThrows
       THEN /\ scope' = scope \cup {Node(id, "", "Database")}
            /\ err' = "MissingDependencyError"
            /\ UNCHANGED constructs
       ELSE /\ scope' = scope \cup {Node(id, "", "Database"),
                                    Node(id, "Instance", "DatabaseInstance"),
                                    Node(id, "DbHost", "CfnOutput")}
            /\ constructs' = (id :> DatabaseObject(id, cfg, enableVpc)) @@ constructs
            /\ err' = "none"
    /\ UNCHANGED <<validation, safeName, vpcConfig, writes>>

\* new Vpc(scope, id, configuration, provider), also reached through
\* Vpc.create
NewVpc(id, cfg) ==
    /\ ~Declared(id)
    /\ CountNodes("Vpc") < MaxVpcs
    /\ scope' = scope \cup {Node(id, "", "Vpc"), AppSecurityGroup(id).node}
    /\ \E threw \in BOOLEAN :
        /\ setVpcConfig(VpcRegistration(id).securityGroups,
                        VpcRegistration(id).subnets, threw)
        /\ IF threw
           THEN /\ err' = "ConflictError"
                /\ UNCHANGED constructs
           ELSE /\ err' = "none"
                /\ constructs' = (id :> VpcObject(id)) @@ constructs
    /\ UNCHANGED <<validation, safeName>>

Next ==
    \/ \E id \in Ids, cfg \in DbConfigs : NewDatabase(id, cfg)
    \/ \E id \in Ids, cfg \in VpcConfigs : NewVpc(id, cfg)

Spec == Init /\ [][Next]_vars

NextValidate ==
    \/ \E cfg \in RawConfigs : ValidateDatabase(cfg)
    \/ \E cfg \in RawConfigs : ValidateVpc(cfg)

SpecValidate == Init /\ [][NextValidate]_vars

NextSafeName == \E name \in SafeNameArgs : CallSafeDbName(name)

SpecSafeName == Init /\ [][NextSafeName]_vars

----------------------------------------------------------------------------
(* Properties                                                              *)

Databases == {constructs[id] : id \in {i \in DOMAIN constructs :
                                           constructs[i].kind = "database"}}
Vpcs == {constructs[id] : id \in {i \in DOMAIN constructs :
                                      constructs[i].kind = "vpc"}}

\* The fields each construct documents.
DocumentedKeys(kind) ==
    IF kind = "database"
    THEN {"name", "password", "engine", "instanceType", "storageSize"}
    ELSE {"type"}

\* The violations that concern fields other than `field`.
ErrorsElsewhere(errors, field) == {e \in errors : e.field # field}

\* C1: for the database and for the network construct, a configuration
\* holding a key its schema does not declare fails validation, with a
\* violation naming each such key, whatever the declared keys hold.
C1_ClosedWorld ==
    validation.kind # "none" =>
        \A k \in Present(validation.cfg) \ DocumentedKeys(validation.kind) :
            /\ validation.errors # {}
            /\ [keyword |-> "additionalProperties", field |-> k]
                    \in validation.errors

C1_Witness ==
    /\ validation.kind = "database"
    /\ Present(validation.cfg) = {"password", "extra"}
    /\ validation.errors = {[keyword |-> "additionalProperties", field |-> "extra"]}

\* C2: a database configuration without a password, or with a password
\* of fewer than 8 characters, fails validation; one whose password has
\* exactly 8 characters and which is otherwise valid passes.
C2_PasswordBoundary ==
    validation.kind = "database" =>
        LET pw == validation.cfg.password IN
        /\ (pw.t = "undefined" \/ (pw.t = "string" /\ Len(pw.s) < 8)) =>
                \E e \in validation.errors : e.field = "password"
        /\ (pw.t = "string" /\ Len(pw.s) = 8
                /\ ErrorsElsewhere(validation.errors, "password") = {}) =>
                validation.errors = {}

C2_Witness ==
    /\ validation.kind = "database"
    /\ validation.cfg.password = StrV(Pw(8))
    /\ Present(validation.cfg) = {"password", "storageSize"}
    /\ validation.errors = {}

\* C3: an integer storageSize below 20 fails validation; from 20 upwards
\* an otherwise valid configuration passes and the declared instance gets
\* exactly that allocated storage.
C3_StorageBoundary ==
    \A c \in Databases :
        LET size == c.configuration.storageSize
            errors == Validate(SCHEMA, c.configuration) IN
        size.t = "integer" =>
            /\ size.n < 20 => \E e \in errors : e.field = "storageSize"
            /\ (size.n >= 20 /\ ErrorsElsewhere(errors, "storageSize") = {}) =>
                    /\ errors = {}
                    /\ c.dbInstance.props.allocatedStorage = IntV(size.n)

C3_Witness ==
    \E c \in Databases :
        /\ c.configuration.storageSize = IntV(20)
        /\ Validate(SCHEMA, c.configuration) = {}
        /\ c.dbInstance.props.allocatedStorage = IntV(20)

IsSeparator(ch) == ch \in {"-", "_"}
IsNotSeparator(ch) == ~IsSeparator(ch)
IdentifierChars(s) == \A i \in 1..Len(s) : s[i] \in NameClass

\* C4: a configuration whose name holds only word characters, digits,
\* underscores and hyphens, with a valid password, passes validation; its
\* descriptor has the name as instance identifier and the name without
\* hyphens and underscores as logical database name.
C4_NamedDatabase ==
    \A c \in Databases :
        LET name == c.configuration.name
            errors == Validate(SCHEMA, c.configuration) IN
        (name.t = "string" /\ IdentifierChars(name.s)
            /\ ErrorsElsewhere(errors, "name") = {}) =>
                /\ errors = {}
                /\ c.dbInstance.props.instanceIdentifier = name.s
                /\ c.dbInstance.props.databaseName
                        = SelectSeq(name.s, IsNotSeparator)

MysqlRow == [engine |-> "mysql", fullVersion |-> "8.0.23", majorVersion |-> "8.0"]
MariaDbRow == [engine |-> "mariadb", fullVersion |-> "10.5.8", majorVersion |-> "10.5"]
PostgresRow == [engine |-> "postgres", fullVersion |-> "13.2", majorVersion |-> "13"]

\* C5: every optional field that is absent is populated from the default
\* table (engine mysql 8.0.23, instance type t3.micro, storage 20,
\* identifier "{stack}-{id}"), backup retention is 7 days, and a field
\* that is present is never replaced by its default.
C5_Defaulting ==
    \A c \in Databases :
        LET cfg == c.configuration
            props == c.dbInstance.props IN
        /\ props.backupRetention = 7
        /\ IF cfg.engine.t = "undefined"
           THEN props.engine = MysqlRow
           ELSE cfg.engine.s # MYSQL => props.engine # MysqlRow
        /\ IF cfg.instanceType.t = "undefined"
           THEN props.instanceType = T3_MICRO
           ELSE props.instanceType = cfg.instanceType.s
        /\ IF cfg.storageSize.t = "undefined"
           THEN props.allocatedStorage = IntV(20)
           ELSE props.allocatedStorage = cfg.storageSize
        /\ IF cfg.name.t = "undefined"
           THEN props.instanceIdentifier = StackName \o <<"-">> \o c.id
           ELSE props.instanceIdentifier = cfg.name.s

C5_Witness ==
    \E c \in Databases :
        /\ Present(c.configuration) = {"password"}
        /\ Validate(SCHEMA, c.configuration) = {}
        /\ c.dbInstance.props.engine = MysqlRow
        /\ c.dbInstance.props.instanceType = T3_MICRO
        /\ c.dbInstance.props.allocatedStorage = IntV(20)
        /\ c.dbInstance.props.instanceIdentifier = <<"a", "p", "p", "-", "d", "b">>

\* C6: the result of safeDbName holds no hyphen and no underscore, keeps
\* every other character in its original order, and is a fixed point of
\* safeDbName; "my-app_db-1" gives "myappdb1".
C6_SafeDbName ==
    safeName.called =>
        /\ \A i \in 1..Len(safeName.ret) : ~IsSeparator(safeName.ret[i])
        /\ safeName.ret = SelectSeq(safeName.arg, IsNotSeparator)
        /\ safeDbName(safeName.ret) = safeName.ret
        /\ safeName.arg = MY_APP_DB_1 =>
                safeName.ret = <<"m", "y", "a", "p", "p", "d", "b", "1">>

C6_Witness ==
    /\ safeName.called
    /\ safeName.arg = MY_APP_DB_1
    /\ safeName.ret = <<"m", "y", "a", "p", "p", "d", "b", "1">>

\* C7: mysql, mariadb and postgres map to their pinned versions, and an
\* engine outside these three that reaches the mapping raises an error:
\* no instance is ever declared with a default or an undefined engine
\* for it.
C7_EngineMapping ==
    \A c \in Databases :
        LET engine == getEngine(c.configuration)
            row == c.dbInstance.props.engine IN
        /\ engine = MYSQL => row = MysqlRow
        /\ engine = MARIADB => row = MariaDbRow
        /\ engine = POSTGRES => row = PostgresRow
        /\ engine \in {MYSQL, MARIADB, POSTGRES}

InstanceNodes(id) ==
    {n \in scope : n.id = id /\ n.type \in {"DatabaseInstance", "CfnOutput"}}

\* C8: with a network context, the database instance is declared in the
\* private subnets of that network; without one, the constructor fails
\* with a missing-dependency error and declares neither the instance nor
\* the host output.
C8_Placement ==
    \A n \in {m \in scope : m.type = "Database"} :
        IF n.id \in DOMAIN constructs
        THEN /\ constructs[n.id].dbInstance.props.vpcSubnets.subnetType = "PRIVATE"
             /\ constructs[n.id].dbInstance.props.vpc.registered
             /\ Cardinality(InstanceNodes(n.id)) = 2
        ELSE InstanceNodes(n.id) = {}

C8_FailsWithoutNetwork ==
    (~vpcConfig.registered /\ CountNodes("Database") # CountNodes("Database")') =>
        /\ err' = "MissingDependencyError"
        /\ constructs' = constructs
        /\ \A n \in scope' \ scope : n.type = "Database"

C8_NetworkPlacement == []C8_Placement /\ [][C8_FailsWithoutNetwork]_vars

C8_Witness ==
    /\ \E n \in scope :
        /\ n.type = "Database"
        /\ n.id \notin DOMAIN constructs
        /\ InstanceNodes(n.id) = {}
    /\ \E c \in Databases :
        /\ c.dbInstance.props.vpcSubnets.subnetType = "PRIVATE"
        /\ c.dbInstance.props.vpc = vpcConfig
        /\ vpcConfig.registered

RegisteredBy(id) ==
    [registered |-> TRUE,
     securityGroupIds |-> <<[vpc |-> id, group |-> "AppSecurityGroup"]>>,
     subnetIds |-> <<[vpc |-> id, az |-> 1], [vpc |-> id, az |-> 2]>>]

C9_OnlyVpcWrites ==
    (vpcConfig' # vpcConfig \/ writes' # writes) =>
        /\ writes' = writes + 1
        /\ \E n \in scope' \ scope :
            /\ n.type = "Vpc"
            /\ vpcConfig' = RegisteredBy(n.id)
            /\ n.id \in DOMAIN constructs'
            /\ constructs'[n.id].maxAzs = 2
            /\ constructs'[n.id].appSecurityGroup.egress
                    = {[peer |-> "anyIpv4", port |-> "allTraffic"]}

C9_OncePerVpc ==
    /\ writes <= CountNodes("Vpc")
    /\ CountNodes("Vpc") >= 1 => writes >= 1
    /\ vpcConfig.registered <=> writes >= 1

C10_Surface ==
    /\ \A c \in Databases :
        /\ DOMAIN Database_references(c) = {"host", "port"}
        /\ Database_references(c).host
                = [instance |-> Node(c.id, "Instance", "DatabaseInstance"),
                   attribute |-> "hostname"]
        /\ Database_references(c).port
                = [instance |-> Node(c.id, "Instance", "DatabaseInstance"),
                   attribute |-> "port"]
        /\ DOMAIN Database_outputs(c) = {"host"}
        /\ Database_outputs(c).host.value
                = [instance |-> Node(c.id, "Instance", "DatabaseInstance"),
                   attribute |-> "hostname"]
        /\ DOMAIN Database_commands(c) = {}
    /\ \A c \in Vpcs :
        /\ DOMAIN Vpc_outputs(c) = {}
        /\ DOMAIN Vpc_references(c) = {}

\* Once constructed, a construct object never changes.
C10_Immutable ==
    \A id \in DOMAIN constructs :
        /\ id \in DOMAIN constructs'
        /\ constructs'[id] = constructs[id]

C10_ExportedSurface == []C10_Surface /\ [][C10_Immutable]_vars

C10_Witness ==
    /\ \E c \in Databases : c.configuration.engine = StrV(POSTGRES)
    /\ \E c \in Vpcs : TRUE

====
